---- MODULE Spec2Model ----
(***************************************************************************)
(* A model of pacman-dl (src/src/bin/pacman-dl.rs): the package index,     *)
(* the dependency resolver and the synchronisation of a repository         *)
(* database.                                                               *)
(*                                                                         *)
(* Names of packages and of targets are modelled by the naturals           *)
(* 1..MaxName; the order of the naturals stands for the order of &str,     *)
(* which is the iteration order of BTreeMap and BTreeSet.                  *)
(* A DatabasePackage is a record [name, depends, provides]; depends and    *)
(* provides are the sets of the names in the Vecs of the same name (the    *)
(* code reads them only through `.name`, inserts them into BTreeSets, and  *)
(* never looks at their order, multiplicity or version constraint).        *)
(* A reference to a Repository is its position in the configured list.     *)
(***************************************************************************)
EXTENDS Integers, Sequences, FiniteSets, TLC

VARIABLES
    repo_packages,      \* sync_dbs' result: one Vec<DatabasePackage> per repository, in configured order
    packages,           \* index_packages_by_name's result: name -> [repo, package]
    providers,          \* DependencyResolver.providers: name -> set of package names
    targets,            \* the targets given to resolve
    ti,                 \* position of resolve's for loop in targets
    queue,              \* resolve's local queue (a BTreeSet)
    selected_packages,  \* DependencyResolver.selected_packages
    provided_targets,   \* DependencyResolver.provided_targets
    resolve_calls,      \* history: name -> number of resolve_target calls for it (saturates at 2)
    result,             \* what resolve returned
    pc,                 \* position of the run
    directory,          \* the local directory of one repository: its entries and both sidecar files
    response,           \* history: what the server answered to the last fetch
    writes,             \* history: which sidecar writes of the last pass succeeded
    extractor_invoked,  \* history: whether the last pass started bsdtar
    sync_result,        \* what the last download_database returned
    last_extracted,     \* history: the response whose archive was last extracted with success
    input,              \* the string given to a parser of parse.rs
    output,             \* what the parser returned
    artifacts,          \* name -> the compressed_size and sha256sum of the record of that name
    pkg_dir,            \* the package directory: name -> the file of that package (None: no file)
    last_download,      \* history: the last call of download_package
    options,            \* the command line options of the run
    databases,          \* the configured repository URLs
    repositories,       \* Repository::parse_urls' result
    sync_i,             \* position of sync_dbs' loop in repositories
    requests,           \* history: the network requests issued, in order
    run_selected,       \* do_main's selected_packages
    dl_todo,            \* the part of the selection that download_packages' loop has not reached
    downloaded,         \* download_packages' downloaded
    db_added,           \* history: the packages handed to add_to_database
    db_passed,          \* history: the packages handed to repo-add in any run so far
    runs,               \* the number of the run, of the runs made one after another
    run_result          \* what do_main returned

syncVars == <<directory, response, writes, extractor_invoked, sync_result, last_extracted>>

parseVars == <<input, output>>

downloadVars == <<artifacts, pkg_dir, last_download>>

runVars == <<options, databases, repositories, sync_i, requests, run_selected, dl_todo,
             downloaded, db_added, db_passed, runs, run_result>>

vars == <<repo_packages, packages, providers, targets, ti, queue, selected_packages,
          provided_targets, resolve_calls, result, pc, directory, response, writes,
          extractor_invoked, sync_result, last_extracted, input, output, artifacts, pkg_dir,
          last_download,
          options, databases, repositories, sync_i, requests, run_selected, dl_todo,
          downloaded, db_added, db_passed, runs, run_result>>

----------------------------------------------------------------------------
(* Bounds of the model. *)

MaxName == 3

MaxDecls == 3

MaxTargets == 2

MaxRepos == 2

MaxRepoLen == 2

MaxProvides == 1

MaxEntry == 1

MaxValidator == 2

MaxInput == 5

MaxData == 2

MaxPath == 2

MaxRuns == 2

Names == 1..MaxName

None == [none |-> TRUE]

Some(v) == [some |-> v]

Min(S) == CHOOSE x \in S : \A y \in S : x <= y

RECURSIVE SubsetsUpTo(_, _)
SubsetsUpTo(S, k) ==
    IF k = 0 THEN {{}}
    ELSE LET R == SubsetsUpTo(S, k - 1) IN R \cup {r \cup {e} : r \in R, e \in S}

SeqsUpTo(S, n) == UNION {[1..k -> S] : k \in 0..n}

----------------------------------------------------------------------------
(* The package index. *)

DatabasePackage(n, d, p) == [name |-> n, depends |-> d, provides |-> p]

\* An insertion that overwrites the previous value (BTreeMap::insert).
EntryInsert_Overwrite(index, name, value) ==
    [k \in DOMAIN index \cup {name} |-> IF k = name THEN value ELSE index[k]]

\* BTreeMap::entry(name): Vacant inserts, Occupied keeps the previous value (and warns).
EntryInsert(index, name, value) ==
    IF name \in DOMAIN index THEN index
    ELSE [k \in DOMAIN index \cup {name} |-> IF k = name THEN value ELSE index[k]]

\* The inner loop of index_packages_by_name: the records of repository `repo` from position j on.
RECURSIVE index_repo(_, _, _, _)
index_repo(index, repo, pkgs, j) ==
    IF j > Len(pkgs) THEN index
    ELSE index_repo(EntryInsert(index, pkgs[j].name, [repo |-> repo, package |-> pkgs[j]]),
                    repo, pkgs, j + 1)

\* The outer loop of index_packages_by_name: the repositories from position i on.
RECURSIVE index_repos(_, _, _)
index_repos(index, repos, i) ==
    IF i > Len(repos) THEN index
    ELSE index_repos(index_repo(index, i, repos[i], 1), repos, i + 1)

index_packages_by_name(repos) == index_repos(<<>>, repos, 1)

\* An insertion that replaces the set of the key by the new value alone.
ProvidersInsert_Replace(index, key, value) ==
    [k \in DOMAIN index \cup {key} |-> IF k = key THEN {value} ELSE index[k]]

\* index.entry(key).or_default().insert(value)
ProvidersInsert(index, key, value) ==
    [k \in DOMAIN index \cup {key} |->
        IF k = key THEN (IF key \in DOMAIN index THEN index[key] ELSE {}) \cup {value}
        ELSE index[k]]

\* The inner loop of index_providers: the provides of one package.
RECURSIVE index_provides(_, _, _)
index_provides(index, package, todo) ==
    IF todo = {} THEN index
    ELSE LET target == Min(todo)
         IN index_provides(ProvidersInsert(index, target, package.name), package, todo \ {target})

\* The outer loop of index_providers: the values of `pkgs` whose key is in `keys`, in key order.
RECURSIVE index_providers_from(_, _, _)
index_providers_from(index, pkgs, keys) ==
    IF keys = {} THEN index
    ELSE LET key == Min(keys)
             package == pkgs[key].package
         IN index_providers_from(
                index_provides(ProvidersInsert(index, package.name, package.name),
                               package, package.provides),
                pkgs, keys \ {key})

index_providers(pkgs) == index_providers_from(<<>>, pkgs, DOMAIN pkgs)

\* do_main: the index is built from the result of sync_dbs.
BuildIndex ==
    /\ pc = "index"
    /\ packages' = index_packages_by_name(repo_packages)
    /\ pc' = "new"
    /\ UNCHANGED <<repo_packages, providers, targets, ti, queue, selected_packages,
                   provided_targets, resolve_calls, result>>
    /\ UNCHANGED <<syncVars, parseVars, downloadVars, runVars>>

----------------------------------------------------------------------------
(* The dependency resolver. *)

Ok(v) == [ok |-> TRUE, value |-> v]

Err(v) == [ok |-> FALSE, value |-> v]

\* A pop_first that reads the first entry and leaves it in the set.
pop_first_Peek(set) ==
    IF set = {} THEN None ELSE [value |-> Min(set), set |-> set]

\* pop_first takes the first, that is the smallest, entry out of the BTreeSet:
\* the entry and the set that is left, or None for an empty set.
pop_first(set) ==
    IF set = {} THEN None ELSE [value |-> Min(set), set |-> set \ {Min(set)}]

\* An add_package that forgets the provides of the package.
add_package_NoProvides(selected, provided, package) ==
    [selected_packages |-> selected \cup {package.name},
     provided_targets |-> provided \cup {package.name}]

add_package(selected, provided, package) ==
    [selected_packages |-> selected \cup {package.name},
     provided_targets |-> provided \cup {package.name} \cup package.provides]

\* A resolve_target that knows real packages only.
resolve_target_RealOnly(pkgs, provs, target) ==
    IF target \in DOMAIN pkgs THEN Ok(pkgs[target].package) ELSE Err(target)

\* A resolve_target that takes the last provider instead of the first.
resolve_target_LastProvider(pkgs, provs, target) ==
    IF target \in DOMAIN pkgs THEN Ok(pkgs[target].package)
    ELSE IF target \in DOMAIN provs /\ provs[target] # {}
         THEN LET provider == CHOOSE x \in provs[target] : \A y \in provs[target] : y <= x
              IN IF provider \in DOMAIN pkgs THEN Ok(pkgs[provider].package) ELSE Err(provider)
         ELSE Err(target)

resolve_target(pkgs, provs, target) ==
    IF target \in DOMAIN pkgs THEN Ok(pkgs[target].package)
    ELSE IF target \in DOMAIN provs /\ provs[target] # {}
         THEN LET provider == Min(provs[target])
              IN IF provider \in DOMAIN pkgs THEN Ok(pkgs[provider].package) ELSE Err(provider)
         ELSE Err(target)

Count(calls, name) == [calls EXCEPT ![name] = IF @ < 2 THEN @ + 1 ELSE @]

\* DependencyResolver::new, and the entry of resolve.
DependencyResolver_new ==
    /\ pc = "new"
    /\ providers' = index_providers(packages)
    /\ selected_packages' = {}
    /\ provided_targets' = {}
    /\ queue' = {}
    /\ ti' = 1
    /\ pc' = IF targets = <<>> THEN "queue" ELSE "targets"
    /\ UNCHANGED <<repo_packages, packages, targets, resolve_calls, result>>
    /\ UNCHANGED <<syncVars, parseVars, downloadVars, runVars>>

\* A for loop that treats an explicit real target like a dependency: skipped when provided.
ResolveTarget_SkipProvided ==
    /\ pc = "targets"
    /\ ti <= Len(targets)
    /\ LET target == targets[ti] IN
         \/ /\ target \in DOMAIN packages
            /\ target \notin provided_targets
            /\ LET package == packages[target].package
                   added == add_package(selected_packages, provided_targets, package)
               IN /\ selected_packages' = added.selected_packages
                  /\ provided_targets' = added.provided_targets
                  /\ queue' = queue \cup package.depends
         \/ /\ target \in DOMAIN packages
            /\ target \in provided_targets
            /\ UNCHANGED <<queue, selected_packages, provided_targets>>
         \/ /\ target \notin DOMAIN packages
            /\ queue' = queue \cup {target}
            /\ UNCHANGED <<selected_packages, provided_targets>>
    /\ ti' = ti + 1
    /\ pc' = IF ti = Len(targets) THEN "queue" ELSE "targets"
    /\ UNCHANGED <<repo_packages, packages, providers, targets, resolve_calls, result>>
    /\ UNCHANGED <<syncVars, parseVars, downloadVars, runVars>>

\* A for loop that selects an explicit real target without queueing its dependencies.
ResolveTarget_NoDepends ==
    /\ pc = "targets"
    /\ ti <= Len(targets)
    /\ LET target == targets[ti] IN
         \/ /\ target \in DOMAIN packages
            /\ LET package == packages[target].package
                   added == add_package(selected_packages, provided_targets, package)
               IN /\ selected_packages' = added.selected_packages
                  /\ provided_targets' = added.provided_targets
                  /\ UNCHANGED queue
         \/ /\ target \notin DOMAIN packages
            /\ queue' = queue \cup {target}
            /\ UNCHANGED <<selected_packages, provided_targets>>
    /\ ti' = ti + 1
    /\ pc' = IF ti = Len(targets) THEN "queue" ELSE "targets"
    /\ UNCHANGED <<repo_packages, packages, providers, targets, resolve_calls, result>>
    /\ UNCHANGED <<syncVars, parseVars, downloadVars, runVars>>

\* One iteration of resolve's for loop over the targets.
ResolveTarget ==
    /\ pc = "targets"
    /\ ti <= Len(targets)
    /\ LET target == targets[ti] IN
         \/ /\ target \in DOMAIN packages
            /\ LET package == packages[target].package
                   added == add_package(selected_packages, provided_targets, package)
               IN /\ selected_packages' = added.selected_packages
                  /\ provided_targets' = added.provided_targets
                  /\ queue' = queue \cup package.depends
         \/ /\ target \notin DOMAIN packages
            /\ queue' = queue \cup {target}
            /\ UNCHANGED <<selected_packages, provided_targets>>
    /\ ti' = ti + 1
    /\ pc' = IF ti = Len(targets) THEN "queue" ELSE "targets"
    /\ UNCHANGED <<repo_packages, packages, providers, targets, resolve_calls, result>>
    /\ UNCHANGED <<syncVars, parseVars, downloadVars, runVars>>

\* A while loop whose check of the dependencies is inverted.
ResolveQueue_InvertedCheck ==
    /\ pc = "queue"
    /\ LET popped == pop_first(queue) IN
         \/ /\ popped = None
            /\ pc' = "done"
            /\ result' = Ok(selected_packages)
            /\ UNCHANGED <<queue, selected_packages, provided_targets, resolve_calls>>
         \/ /\ popped # None
            /\ popped.value \in provided_targets
            /\ queue' = popped.set
            /\ UNCHANGED <<selected_packages, provided_targets, resolve_calls, result, pc>>
         \/ /\ popped # None
            /\ popped.value \notin provided_targets
            /\ resolve_calls' = Count(resolve_calls, popped.value)
            /\ LET chosen == resolve_target(packages, providers, popped.value)
               IN \/ /\ ~chosen.ok
                     /\ pc' = "failed"
                     /\ result' = Err(popped.value)
                     /\ queue' = popped.set
                     /\ UNCHANGED <<selected_packages, provided_targets>>
                  \/ /\ chosen.ok
                     /\ LET package == chosen.value
                            added == add_package(selected_packages, provided_targets, package)
                        IN /\ selected_packages' = added.selected_packages
                           /\ provided_targets' = added.provided_targets
                           /\ queue' = popped.set \cup (package.depends \cap added.provided_targets)
                     /\ UNCHANGED <<result, pc>>
    /\ UNCHANGED <<repo_packages, packages, providers, targets, ti>>
    /\ UNCHANGED <<syncVars, parseVars, downloadVars, runVars>>

\* One iteration of resolve's while loop, or its end.
ResolveQueue ==
    /\ pc = "queue"
    /\ LET popped == pop_first(queue) IN
         \/ /\ popped = None
            /\ pc' = "done"
            /\ result' = Ok(selected_packages)
            /\ UNCHANGED <<queue, selected_packages, provided_targets, resolve_calls>>
         \/ /\ popped # None
            /\ popped.value \in provided_targets
            /\ queue' = popped.set
            /\ UNCHANGED <<selected_packages, provided_targets, resolve_calls, result, pc>>
         \/ /\ popped # None
            /\ popped.value \notin provided_targets
            /\ resolve_calls' = Count(resolve_calls, popped.value)
            /\ LET chosen == resolve_target(packages, providers, popped.value)
               IN \/ /\ ~chosen.ok
                     /\ pc' = "failed"
                     /\ result' = Err(popped.value)
                     /\ queue' = popped.set
                     /\ UNCHANGED <<selected_packages, provided_targets>>
                  \/ /\ chosen.ok
                     /\ LET package == chosen.value
                            added == add_package(selected_packages, provided_targets, package)
                        IN /\ selected_packages' = added.selected_packages
                           /\ provided_targets' = added.provided_targets
                           /\ queue' = popped.set \cup (package.depends \ added.provided_targets)
                     /\ UNCHANGED <<result, pc>>
    /\ UNCHANGED <<repo_packages, packages, providers, targets, ti>>
    /\ UNCHANGED <<syncVars, parseVars, downloadVars, runVars>>

----------------------------------------------------------------------------
(* The synchronisation of one repository database.                         *)
(*                                                                         *)
(* The directory of the repository holds the entries extracted from the    *)
(* archive (numbered 1..MaxEntry; an archive is the set of its entries,    *)
(* none of which is named like a sidecar) and the two sidecar files, each  *)
(* absent (None) or holding a validator (Some of 1..MaxValidator).  Every fallible *)
(* operation on the file system or on the subprocess either succeeds or    *)
(* fails; the environment record `env` of a pass says which.               *)

Entries == 1..MaxEntry

Validators == 1..MaxValidator

\* A header of a response: absent, present but not a visible-ASCII string, or a validator.
Absent == [kind |-> "absent", value |-> 0]

Headers ==
    {Absent, [kind |-> "invalid", value |-> 0]} \cup {[kind |-> "valid", value |-> v] : v \in Validators}

NoDirectory == [exists |-> FALSE, entries |-> {}, last_modified |-> None, etag |-> None]

EmptyDirectory == [exists |-> TRUE, entries |-> {}, last_modified |-> None, etag |-> None]

\* No fetch was made yet.
NoResponse ==
    [kind |-> "none", status |-> 0, last_modified |-> Absent, etag |-> Absent, body |-> {}]

\* What the server may answer: no answer at all, or a status with headers and a body.
Responses ==
    {[kind |-> "transport_error", status |-> 0, last_modified |-> Absent, etag |-> Absent,
      body |-> {}]}
    \cup {[kind |-> "http", status |-> 200, last_modified |-> l, etag |-> e, body |-> b] :
            l \in Headers, e \in Headers, b \in SUBSET Entries}
    \cup {[kind |-> "http", status |-> 304, last_modified |-> l, etag |-> e, body |-> {}] :
            l \in Headers, e \in Headers}
    \cup {[kind |-> "http", status |-> 404, last_modified |-> Absent, etag |-> Absent,
           body |-> {}]}

\* The environment of a pass that touches nothing on disk.
NoEnvironment ==
    [fail |-> "none", rm_last_modified |-> TRUE, rm_etag |-> TRUE, left |-> {},
     wr_last_modified |-> TRUE, wr_etag |-> TRUE]

\* The outcomes of an operation on a file: success only where failure changes nothing.
Outcomes(matters) == IF matters THEN BOOLEAN ELSE {TRUE}

\* What the environment may do to the operations of a pass on directory `dir` with the
\* download `download`: each remove_file of a sidecar succeeds or fails and remove_dir_all
\* fails, leaving any part of the entries and the sidecars that remove_file left; make_dirs
\* fails; bsdtar cannot be started; bsdtar fails (or the write to it, or the wait for it),
\* leaving any part of the archive; or all of them succeed and each write of a sidecar
\* succeeds or fails.
Environments(dir, download) ==
    {[NoEnvironment EXCEPT !.fail = "remove_dir_all", !.rm_last_modified = a, !.rm_etag = b,
                           !.left = l] :
        a \in Outcomes(dir.last_modified # None), b \in Outcomes(dir.etag # None),
        l \in SUBSET dir.entries}
    \cup {[NoEnvironment EXCEPT !.fail = f] : f \in {"make_dirs", "spawn"}}
    \cup {[NoEnvironment EXCEPT !.fail = "bsdtar", !.left = l] : l \in SUBSET download.data}
    \cup {[NoEnvironment EXCEPT !.wr_last_modified = w, !.wr_etag = x] :
            w \in Outcomes(download.last_modified # None),
            x \in Outcomes(download.etag # None)}

\* The validators download_database reads from the sidecars and maybe_download sends as
\* If-Modified-Since and If-None-Match; None is a header that is not sent.
conditional_request(dir) ==
    [if_modified_since |-> dir.last_modified, if_none_match |-> dir.etag]

\* get_string_header: None when the header is absent or not a valid string.
get_string_header(header) == IF header.kind = "valid" THEN Some(header.value) ELSE None

\* A maybe_download without the check for NOT_MODIFIED.
maybe_download_No304(resp) ==
    IF resp.kind = "transport_error" THEN Err("transport")
    ELSE IF resp.status >= 400 /\ resp.status < 600 THEN Err("status")
    ELSE Ok([data |-> resp.body,
             last_modified |-> get_string_header(resp.last_modified),
             etag |-> get_string_header(resp.etag)])

\* maybe_download: Err for a failed request or an error status, Ok(None) for 304,
\* else Ok(Some(Download)).
maybe_download(resp) ==
    IF resp.kind = "transport_error" THEN Err("transport")
    ELSE IF resp.status >= 400 /\ resp.status < 600 THEN Err("status")
    ELSE IF resp.status = 304 THEN Ok(None)
    ELSE Ok([data |-> resp.body,
             last_modified |-> get_string_header(resp.last_modified),
             etag |-> get_string_header(resp.etag)])

\* std::fs::remove_file of a sidecar; the caller ignores its failure.
remove_sidecars(dir, env) ==
    [dir EXCEPT !.last_modified = IF env.rm_last_modified THEN None ELSE @,
                !.etag = IF env.rm_etag THEN None ELSE @]

\* An extract_archive that extracts over the previous contents of the directory.
extract_archive_NoRemove(dir, data, env) ==
    IF env.fail = "remove_dir_all" \/ env.fail = "make_dirs"
    THEN [result |-> Err(env.fail), directory |-> dir, invoked |-> FALSE]
    ELSE IF env.fail = "spawn"
    THEN [result |-> Err(env.fail), directory |-> [dir EXCEPT !.exists = TRUE], invoked |-> FALSE]
    ELSE IF env.fail = "bsdtar"
    THEN [result |-> Err(env.fail),
          directory |-> [dir EXCEPT !.exists = TRUE, !.entries = @ \cup env.left],
          invoked |-> TRUE]
    ELSE [result |-> Ok(None),
          directory |-> [dir EXCEPT !.exists = TRUE, !.entries = @ \cup data],
          invoked |-> TRUE]

\* extract_archive: the result, the directory it leaves, and whether bsdtar was started.
extract_archive(dir, data, env) ==
    IF env.fail = "remove_dir_all"
    THEN [result |-> Err(env.fail),
          directory |-> [dir EXCEPT !.entries = env.left],
          invoked |-> FALSE]
    ELSE IF env.fail = "make_dirs"
    THEN [result |-> Err(env.fail), directory |-> NoDirectory, invoked |-> FALSE]
    ELSE IF env.fail = "spawn"
    THEN [result |-> Err(env.fail), directory |-> EmptyDirectory, invoked |-> FALSE]
    ELSE IF env.fail = "bsdtar"
    THEN [result |-> Err(env.fail),
          directory |-> [EmptyDirectory EXCEPT !.entries = env.left],
          invoked |-> TRUE]
    ELSE [result |-> Ok(None),
          directory |-> [EmptyDirectory EXCEPT !.entries = data],
          invoked |-> TRUE]

\* std::fs::write of the sidecars for the validators of the download; failures are ignored.
write_sidecars(dir, download, env) ==
    [dir EXCEPT !.last_modified =
                    IF download.last_modified # None /\ env.wr_last_modified
                    THEN download.last_modified ELSE @,
                !.etag = IF download.etag # None /\ env.wr_etag THEN download.etag ELSE @]

\* download_database: the result, the directory it leaves, and whether bsdtar was started.
download_database(dir, resp, env) ==
    LET download == maybe_download(resp)
    IN IF ~download.ok
       THEN [result |-> Err(download.value), directory |-> dir, invoked |-> FALSE]
       ELSE IF download.value = None
       THEN [result |-> Ok(None), directory |-> dir, invoked |-> FALSE]
       ELSE LET extracted == extract_archive(remove_sidecars(dir, env), download.value.data, env)
            IN IF ~extracted.result.ok THEN extracted
               ELSE [extracted EXCEPT
                        !.directory = write_sidecars(extracted.directory, download.value, env)]

\* One synchronisation pass of the repository: download_database, with the server's answer
\* and the environment of the pass.
DownloadDatabase ==
    \E resp \in Responses :
        \E env \in IF ~maybe_download(resp).ok \/ maybe_download(resp).value = None
                   THEN {NoEnvironment}
                   ELSE Environments(directory, maybe_download(resp).value) :
            LET out == download_database(directory, resp, env)
            IN /\ directory' = out.directory
               /\ sync_result' = out.result
               /\ extractor_invoked' = out.invoked
               /\ last_extracted' = IF out.invoked /\ out.result.ok THEN resp ELSE last_extracted
               /\ response' = resp
               /\ writes' = [last_modified |-> env.wr_last_modified, etag |-> env.wr_etag]
               /\ UNCHANGED <<repo_packages, packages, providers, targets, ti, queue,
                              selected_packages, provided_targets, resolve_calls, result, pc>>
               /\ UNCHANGED <<parseVars, downloadVars, runVars>>

----------------------------------------------------------------------------
(* The parsers of src/src/parse.rs.                                        *)
(*                                                                         *)
(* A string is the sequence of its characters; the characters are those    *)
(* the parsers tell apart, one letter and one digit.                       *)

Chars == {"a", "1", "<", ">", "=", "-", ":"}

Digits == {"1"}

Strings == SeqsUpTo(Chars, MaxInput)

\* The string from position i to the end: &input[i..] with positions counted from 1.
Suffix(s, i) == SubSeq(s, i, Len(s))

\* str::find(char): the first position of `split` in `s` from position i on, 0 for None.
RECURSIVE find(_, _, _)
find(s, split, i) ==
    IF i > Len(s) THEN 0 ELSE IF s[i] = split THEN i ELSE find(s, split, i + 1)

\* str::rfind(char): the last position of `split` in `s` up to position i, 0 for None.
RECURSIVE rfind(_, _, _)
rfind(s, split, i) ==
    IF i < 1 THEN 0 ELSE IF s[i] = split THEN i ELSE rfind(s, split, i - 1)

partition(s, split) ==
    LET i == find(s, split, 1)
    IN IF i = 0 THEN None ELSE Some(<<SubSeq(s, 1, i - 1), Suffix(s, i + 1)>>)

rpartition(s, split) ==
    LET i == rfind(s, split, Len(s))
    IN IF i = 0 THEN None ELSE Some(<<SubSeq(s, 1, i - 1), Suffix(s, i + 1)>>)

is_constraint_char(c) == c = ">" \/ c = "<" \/ c = "="

\* str::find(is_constraint_char): the first position of a constraint character, 0 for None.
RECURSIVE find_constraint_char(_, _)
find_constraint_char(s, i) ==
    IF i > Len(s) THEN 0
    ELSE IF is_constraint_char(s[i]) THEN i ELSE find_constraint_char(s, i + 1)

\* str::strip_prefix: the rest of `s` after `prefix`, None when `s` does not start with it.
strip_prefix(s, prefix) ==
    IF Len(s) >= Len(prefix) /\ SubSeq(s, 1, Len(prefix)) = prefix
    THEN Some(Suffix(s, Len(prefix) + 1))
    ELSE None

Parsed(c, version) == Some([constraint |-> c, version |-> version])

\* A parse_constraint that tries the one-character operators first.
parse_constraint_ShortFirst(constraint) ==
    IF strip_prefix(constraint, <<">">>) # None
    THEN Parsed("Greater", strip_prefix(constraint, <<">">>).some)
    ELSE IF strip_prefix(constraint, <<"<">>) # None
    THEN Parsed("Less", strip_prefix(constraint, <<"<">>).some)
    ELSE IF strip_prefix(constraint, <<"=">>) # None
    THEN Parsed("Equal", strip_prefix(constraint, <<"=">>).some)
    ELSE None

parse_constraint(constraint) ==
    IF strip_prefix(constraint, <<">", "=">>) # None
    THEN Parsed("GreaterEqual", strip_prefix(constraint, <<">", "=">>).some)
    ELSE IF strip_prefix(constraint, <<"<", "=">>) # None
    THEN Parsed("LessEqual", strip_prefix(constraint, <<"<", "=">>).some)
    ELSE IF strip_prefix(constraint, <<">">>) # None
    THEN Parsed("Greater", strip_prefix(constraint, <<">">>).some)
    ELSE IF strip_prefix(constraint, <<"<">>) # None
    THEN Parsed("Less", strip_prefix(constraint, <<"<">>).some)
    ELSE IF strip_prefix(constraint, <<"=", "=">>) # None
    THEN Parsed("Equal", strip_prefix(constraint, <<"=", "=">>).some)
    ELSE IF strip_prefix(constraint, <<"=">>) # None
    THEN Parsed("Equal", strip_prefix(constraint, <<"=">>).some)
    ELSE None

\* parse_depends: the name and the optional constraint, or the panic of unwrap on None.
\* The version of the constraint is kept as the text handed to Version::from_str.
parse_depends(blob) ==
    LET start == find_constraint_char(blob, 1)
    IN IF start = 0
       THEN [panic |-> FALSE, name |-> blob, constraint |-> None]
       ELSE LET parsed == parse_constraint(Suffix(blob, start))
            IN IF parsed = None
               THEN [panic |-> TRUE, name |-> <<>>, constraint |-> None]
               ELSE [panic |-> FALSE, name |-> SubSeq(blob, 1, start - 1), constraint |-> parsed]

digit(c) == IF c = "1" THEN 1 ELSE 0

\* str::parse::<i32> of a string of the model's characters: Some(value), or None when the
\* string is empty, holds a character that is not a digit, or is out of range.
RECURSIVE parse_i32_from(_, _, _)
parse_i32_from(s, i, acc) ==
    IF i > Len(s) THEN Some(acc)
    ELSE IF s[i] \notin Digits \/ acc * 10 + digit(s[i]) > 2147483647 THEN None
    ELSE parse_i32_from(s, i + 1, acc * 10 + digit(s[i]))

parse_i32(s) == IF s = <<>> THEN None ELSE parse_i32_from(s, 1, 0)

Version(epoch, pkgver, pkgrel) == [epoch |-> epoch, pkgver |-> pkgver, pkgrel |-> pkgrel]

\* parse_pkgname_pkgver: Ok of the name and the version, or Err of the message of the
\* ParseError.
parse_pkgname_pkgver(s) ==
    LET first == partition(s, "-")
    IN IF first = None THEN [ok |-> FALSE, error |-> "missing pkver"]
       ELSE LET name1 == first.some[1]
                pkgrel == first.some[2]
                second == partition(name1, "-")
            IN IF second = None THEN [ok |-> FALSE, error |-> "missing pkgrel"]
               ELSE LET name == second.some[1]
                        pkgver == second.some[2]
                        third == partition(pkgver, ":")
                    IN IF third = None
                       THEN [ok |-> TRUE, name |-> name, version |-> Version(0, pkgver, Some(pkgrel))]
                       ELSE IF parse_i32(third.some[1]) = None
                       THEN [ok |-> FALSE, error |-> "invalid epoch in package version"]
                       ELSE [ok |-> TRUE, name |-> name,
                             version |-> Version(parse_i32(third.some[1]).some, third.some[2],
                                                 Some(pkgrel))]

NoOutput == [fn |-> "none"]

\* A call of parse_depends on the input.
ParseDepends ==
    /\ pc = "parse"
    /\ output = NoOutput
    /\ output' = [fn |-> "parse_depends", value |-> parse_depends(input)]
    /\ UNCHANGED <<repo_packages, packages, providers, targets, ti, queue, selected_packages,
                   provided_targets, resolve_calls, result, pc, input>>
    /\ UNCHANGED <<syncVars, downloadVars, runVars>>

\* A call of parse_pkgname_pkgver on the input.
ParsePkgnamePkgver ==
    /\ pc = "parse"
    /\ output = NoOutput
    /\ output' = [fn |-> "parse_pkgname_pkgver", value |-> parse_pkgname_pkgver(input)]
    /\ UNCHANGED <<repo_packages, packages, providers, targets, ti, queue, selected_packages,
                   provided_targets, resolve_calls, result, pc, input>>
    /\ UNCHANGED <<syncVars, downloadVars, runVars>>

InitParseVars ==
    /\ input = <<>>
    /\ output = NoOutput

----------------------------------------------------------------------------
(* The download of one package.                                            *)
(*                                                                         *)
(* The contents of a file and of a fetched artifact are sequences of the   *)
(* bytes 0 and 1 of length at most MaxData.  SHA-256 is modelled by a      *)
(* digest of one byte that tells all these contents apart; file_sha256     *)
(* formats it as lower-case hexadecimal digits, two for each byte.         *)

Bytes == {0, 1}

Datas == SeqsUpTo(Bytes, MaxData)

HexDigits == <<"0", "1", "2", "3", "4", "5", "6", "7", "8", "9", "a", "b", "c", "d", "e", "f">>

\* sha2::Sha256::digest
RECURSIVE Sha256_from(_, _, _)
Sha256_from(data, i, code) ==
    IF i > Len(data) THEN <<(160 + code) % 256>>
    ELSE Sha256_from(data, i + 1, code * 2 + data[i])

Sha256(data) == Sha256_from(data, 1, 1)

\* format!("{:02x}", byte)
format_02x(byte) == <<HexDigits[(byte \div 16) + 1], HexDigits[(byte % 16) + 1]>>

RECURSIVE hex_from(_, _)
hex_from(digest, i) ==
    IF i > Len(digest) THEN <<>> ELSE format_02x(digest[i]) \o hex_from(digest, i + 1)

\* file_sha256 of a file that can be read.
file_sha256(data) == hex_from(Sha256(data), 1)

to_ascii_lowercase(c) ==
    CASE c = "A" -> "a" [] c = "B" -> "b" [] c = "C" -> "c" [] c = "D" -> "d"
      [] c = "E" -> "e" [] c = "F" -> "f" [] OTHER -> c

to_ascii_uppercase(c) ==
    CASE c = "a" -> "A" [] c = "b" -> "B" [] c = "c" -> "C" [] c = "d" -> "D"
      [] c = "e" -> "E" [] c = "f" -> "F" [] OTHER -> c

\* str::eq_ignore_ascii_case
eq_ignore_ascii_case(a, b) ==
    /\ Len(a) = Len(b)
    /\ \A i \in 1..Len(a) : to_ascii_lowercase(a[i]) = to_ascii_lowercase(b[i])

\* The sha256sum of a record: the digest of some contents, in lower or in upper case.
Sums ==
    {file_sha256(d) : d \in Datas}
    \cup {[i \in 1..Len(file_sha256(d)) |-> to_ascii_uppercase(file_sha256(d)[i])] : d \in Datas}

\* The fields of a DatabasePackage that download_package reads.
Artifacts == [compressed_size : 0..MaxData, sha256sum : Sums]

\* The environment of a call in which every operation succeeds and the server sends `data`.
DownloadOk(data) == [fail |-> "none", data |-> data, written |-> Len(data)]

\* What the environment may do to a call of download_package for the file `file` and the
\* record `record`: every operation succeeds and the server sends some artifact; make_dirs
\* fails; stat fails; the read of the file for its checksum fails; the file cannot be
\* created; the fetch fails; or the write fails after part of the artifact.
DownloadEnvironments(file, record) ==
    {DownloadOk(d) : d \in Datas}
    \cup {[DownloadOk(<<>>) EXCEPT !.fail = f] : f \in {"make_dirs", "stat", "create", "download"}}
    \cup (IF file # None /\ Len(file.some) = record.compressed_size
          THEN {[DownloadOk(<<>>) EXCEPT !.fail = "read"]} ELSE {})
    \cup {[DownloadOk(d) EXCEPT !.fail = "write", !.written = k] :
            d \in Datas \ {<<>>}, k \in 0..(MaxData - 1)}

\* The check of an existing file: Ok(skip), or Err when the file cannot be read.
check_existing_SizeOnly(file, record, env) ==
    IF file = None THEN Ok(FALSE)
    ELSE Ok(Len(file.some) = record.compressed_size)

check_existing(file, record, env) ==
    IF file = None THEN Ok(FALSE)
    ELSE IF Len(file.some) # record.compressed_size THEN Ok(FALSE)
    ELSE IF env.fail = "read" THEN Err("read")
    ELSE Ok(eq_ignore_ascii_case(file_sha256(file.some), record.sha256sum))

\* download_package: the result, the file it leaves at the destination, and whether the
\* fetch was issued.
download_package(file, record, env) ==
    IF env.fail = "make_dirs" \/ env.fail = "stat"
    THEN [result |-> Err(env.fail), file |-> file, requested |-> FALSE]
    ELSE LET skip == check_existing(file, record, env)
         IN IF ~skip.ok THEN [result |-> Err(skip.value), file |-> file, requested |-> FALSE]
            ELSE IF skip.value THEN [result |-> Ok(FALSE), file |-> file, requested |-> FALSE]
            ELSE IF env.fail = "create"
            THEN [result |-> Err(env.fail), file |-> file, requested |-> FALSE]
            ELSE IF env.fail = "download"
            THEN [result |-> Err(env.fail), file |-> Some(<<>>), requested |-> TRUE]
            ELSE IF env.fail = "write"
            THEN [result |-> Err(env.fail),
                  file |-> Some(SubSeq(env.data, 1, IF env.written < Len(env.data)
                                                    THEN env.written ELSE Len(env.data) - 1)),
                  requested |-> TRUE]
            ELSE [result |-> Ok(TRUE), file |-> Some(env.data), requested |-> TRUE]

NoDownload ==
    [name |-> 0, before |-> None, env |-> DownloadOk(<<>>), result |-> Ok(FALSE), requested |-> FALSE]

\* A call of download_package for the package `name`, as of a run of the downloader for
\* that package alone.
DownloadPackage ==
    /\ pc = "download_package"
    /\ \E name \in DOMAIN artifacts :
         \E env \in DownloadEnvironments(pkg_dir[name], artifacts[name]) :
            LET out == download_package(pkg_dir[name], artifacts[name], env)
            IN /\ pkg_dir' = [pkg_dir EXCEPT ![name] = out.file]
               /\ last_download' = [name |-> name, before |-> pkg_dir[name], env |-> env,
                                    result |-> out.result, requested |-> out.requested]
    /\ UNCHANGED <<repo_packages, packages, providers, targets, ti, queue, selected_packages,
                   provided_targets, resolve_calls, result, pc, artifacts>>
    /\ UNCHANGED <<syncVars, parseVars, runVars>>

InitDownloadVars ==
    /\ artifacts = <<>>
    /\ pkg_dir = <<>>
    /\ last_download = NoDownload

----------------------------------------------------------------------------
(* The run of the downloader: do_main.                                     *)
(*                                                                         *)
(* A configured URL is a string that reqwest::Url parses or rejects; of a  *)
(* parsed URL the code reads the path alone, a string of "/" and letters.  *)
(* The directory of a repository and the file of a package are each used   *)
(* by one step of a run only (the names of the repositories are distinct,  *)
(* and so are the names in a BTreeSet), so a step draws what is on disk    *)
(* before it from the states it may be in.  Where runs follow one another  *)
(* the package directory is kept in pkg_dir from one run to the next.      *)

PathChars == {"/", "x", "y"}

MalformedUrl == [wellformed |-> FALSE, path |-> <<>>]

Url(path) == [wellformed |-> TRUE, path |-> path]

Urls == {MalformedUrl} \cup {Url(path) : path \in SeqsUpTo(PathChars, MaxPath)}

\* <Repository as FromStr>::from_str
Repository_from_str(url) ==
    IF ~url.wellformed THEN Err("invalid url")
    ELSE LET parts == rpartition(url.path, "/")
             name == IF parts = None THEN url.path ELSE parts.some[2]
         IN IF name = <<>> THEN Err("no name") ELSE Ok([name |-> name, db_url |-> url])

\* A parse_urls that does not look for duplicate names.
RECURSIVE parse_urls_from_NoDuplicateCheck(_, _, _, _)
parse_urls_from_NoDuplicateCheck(urls, i, names, repos) ==
    IF i > Len(urls) THEN Ok(repos)
    ELSE LET repository == Repository_from_str(urls[i])
         IN IF ~repository.ok THEN Err("from_str")
            ELSE parse_urls_from_NoDuplicateCheck(urls, i + 1, names \cup {repository.value.name},
                                                  Append(repos, repository.value))

\* The loop of Repository::parse_urls from position i on.
RECURSIVE parse_urls_from(_, _, _, _)
parse_urls_from(urls, i, names, repos) ==
    IF i > Len(urls) THEN Ok(repos)
    ELSE LET repository == Repository_from_str(urls[i])
         IN IF ~repository.ok THEN Err("from_str")
            ELSE IF repository.value.name \in names THEN Err("duplicate")
            ELSE parse_urls_from(urls, i + 1, names \cup {repository.value.name},
                                 Append(repos, repository.value))

parse_urls(urls) == parse_urls_from(urls, 1, {}, <<>>)

\* An end that records the result and stays at the failed step.
Exit_Retry(r) ==
    /\ run_result' = r
    /\ UNCHANGED pc

\* The run ends with the result `r`.
Exit(r) ==
    /\ run_result' = r
    /\ pc' = "exit"

\* do_main up to the call of sync_dbs: the lists of targets and of URLs are read, checked
\* and parsed.
Main ==
    /\ pc = "main"
    /\ \/ /\ Exit(Err("read_files"))
          /\ UNCHANGED repositories
       \/ /\ targets = <<>> /\ ~options.pkg_all
          /\ Exit(Err("no targets"))
          /\ UNCHANGED repositories
       \/ /\ ~(targets = <<>> /\ ~options.pkg_all)
          /\ databases = <<>>
          /\ Exit(Err("no databases"))
          /\ UNCHANGED repositories
       \/ /\ ~(targets = <<>> /\ ~options.pkg_all)
          /\ databases # <<>>
          /\ LET parsed == parse_urls(databases)
             IN IF parsed.ok
                THEN /\ repositories' = parsed.value
                     /\ pc' = "sync_dbs"
                     /\ UNCHANGED run_result
                ELSE /\ Exit(Err("parse_urls"))
                     /\ UNCHANGED repositories
    /\ UNCHANGED <<repo_packages, packages, providers, targets, ti, queue, selected_packages,
                   provided_targets, resolve_calls, result>>
    /\ UNCHANGED <<options, databases, sync_i, requests, run_selected, dl_todo, downloaded,
                   db_added, db_passed, runs>>
    /\ UNCHANGED <<syncVars, parseVars, downloadVars>>

\* The directory of a repository before a run: not yet there, or left by an earlier run.
RunDirectories ==
    {NoDirectory,
     [exists |-> TRUE, entries |-> Entries, last_modified |-> Some(1), etag |-> Some(1)]}

\* The answers of the server that a run tells apart.
RunResponses ==
    {r \in Responses : r.last_modified = Absent /\ r.etag = Absent
                       /\ (r.status = 200 => r.body = Entries)}

\* The records of the repositories of a run: package 1 depends on 2, and 2 provides 3.
RunRecords == {DatabasePackage(1, {2}, {}), DatabasePackage(2, {}, {3})}

\* What read_db_dir may return for a repository: no record or one.
RunRecordLists == SeqsUpTo(RunRecords, 1)

\* A sync_dbs that goes on with the next repository when one fails.
SyncDbs_SkipFailed ==
    /\ pc = "sync_dbs"
    /\ sync_i <= Len(repositories)
    /\ requests' = Append(requests, [kind |-> "db", id |-> sync_i])
    /\ \E dir \in RunDirectories, resp \in RunResponses :
         \E env \in IF ~maybe_download(resp).ok \/ maybe_download(resp).value = None
                    THEN {NoEnvironment}
                    ELSE Environments(dir, maybe_download(resp).value) :
            /\ sync_result' = download_database(dir, resp, env).result
            /\ IF ~download_database(dir, resp, env).result.ok
               THEN /\ repo_packages' = Append(repo_packages, <<>>)
                    /\ sync_i' = sync_i + 1
                    /\ pc' = IF sync_i = Len(repositories) THEN "index" ELSE "sync_dbs"
                    /\ UNCHANGED run_result
               ELSE \/ /\ Exit(Err("read_db_dir"))
                       /\ UNCHANGED <<repo_packages, sync_i>>
                    \/ \E records \in RunRecordLists :
                          /\ repo_packages' = Append(repo_packages, records)
                          /\ sync_i' = sync_i + 1
                          /\ pc' = IF sync_i = Len(repositories) THEN "index" ELSE "sync_dbs"
                          /\ UNCHANGED run_result
    /\ UNCHANGED <<packages, providers, targets, ti, queue, selected_packages,
                   provided_targets, resolve_calls, result>>
    /\ UNCHANGED <<options, databases, repositories, run_selected, dl_todo, downloaded, db_added,
                   db_passed, runs>>
    /\ UNCHANGED <<directory, response, writes, extractor_invoked, last_extracted>>
    /\ UNCHANGED <<parseVars, downloadVars>>

\* One iteration of sync_dbs' loop: download_database and read_db_dir for one repository.
SyncDbs ==
    /\ pc = "sync_dbs"
    /\ sync_i <= Len(repositories)
    /\ requests' = Append(requests, [kind |-> "db", id |-> sync_i])
    /\ \E dir \in RunDirectories, resp \in RunResponses :
         \E env \in IF ~maybe_download(resp).ok \/ maybe_download(resp).value = None
                    THEN {NoEnvironment}
                    ELSE Environments(dir, maybe_download(resp).value) :
            /\ sync_result' = download_database(dir, resp, env).result
            /\ IF ~download_database(dir, resp, env).result.ok
               THEN /\ Exit(Err("download_database"))
                    /\ UNCHANGED <<repo_packages, sync_i>>
               ELSE \/ /\ Exit(Err("read_db_dir"))
                       /\ UNCHANGED <<repo_packages, sync_i>>
                    \/ \E records \in RunRecordLists :
                          /\ repo_packages' = Append(repo_packages, records)
                          /\ sync_i' = sync_i + 1
                          /\ pc' = IF sync_i = Len(repositories) THEN "index" ELSE "sync_dbs"
                          /\ UNCHANGED run_result
    /\ UNCHANGED <<packages, providers, targets, ti, queue, selected_packages,
                   provided_targets, resolve_calls, result>>
    /\ UNCHANGED <<options, databases, repositories, run_selected, dl_todo, downloaded, db_added,
                   db_passed, runs>>
    /\ UNCHANGED <<directory, response, writes, extractor_invoked, last_extracted>>
    /\ UNCHANGED <<parseVars, downloadVars>>

\* do_main's choice of the packages without the resolver: --pkg-all takes every package
\* of the index, --no-deps the targets as they are.
SelectWithoutResolver ==
    /\ pc = "new"
    /\ options.pkg_all \/ options.no_deps
    /\ run_selected' = IF options.pkg_all THEN DOMAIN packages
                   ELSE {targets[i] : i \in 1..Len(targets)}
    /\ dl_todo' = run_selected'
    /\ pc' = "download"
    /\ UNCHANGED <<repo_packages, packages, providers, targets, ti, queue, selected_packages,
                   provided_targets, resolve_calls, result>>
    /\ UNCHANGED <<options, databases, repositories, sync_i, requests, downloaded, db_added,
                   db_passed, runs, run_result>>
    /\ UNCHANGED <<syncVars, parseVars, downloadVars>>

\* do_main's call of DependencyResolver::new, without --pkg-all and --no-deps.
Resolve ==
    /\ ~options.pkg_all /\ ~options.no_deps
    /\ DependencyResolver_new

\* A do_main that goes on with the packages selected so far when resolve fails.
Resolved_IgnoreError ==
    /\ \/ /\ pc = "done"
          /\ run_selected' = result.value
          /\ dl_todo' = result.value
          /\ pc' = "download"
          /\ UNCHANGED run_result
       \/ /\ pc = "failed"
          /\ run_selected' = selected_packages
          /\ dl_todo' = selected_packages
          /\ pc' = "download"
          /\ UNCHANGED run_result
    /\ UNCHANGED <<repo_packages, packages, providers, targets, ti, queue, selected_packages,
                   provided_targets, resolve_calls, result>>
    /\ UNCHANGED <<options, databases, repositories, sync_i, requests, downloaded, db_added,
                   db_passed, runs>>
    /\ UNCHANGED <<syncVars, parseVars, downloadVars>>

\* do_main's `?` on the result of resolve.
Resolved ==
    /\ \/ /\ pc = "done"
          /\ run_selected' = result.value
          /\ dl_todo' = result.value
          /\ pc' = "download"
          /\ UNCHANGED run_result
       \/ /\ pc = "failed"
          /\ Exit(Err("resolve"))
          /\ UNCHANGED <<run_selected, dl_todo>>
    /\ UNCHANGED <<repo_packages, packages, providers, targets, ti, queue, selected_packages,
                   provided_targets, resolve_calls, result>>
    /\ UNCHANGED <<options, databases, repositories, sync_i, requests, downloaded, db_added,
                   db_passed, runs>>
    /\ UNCHANGED <<syncVars, parseVars, downloadVars>>

\* The record of a package of a run, as far as download_package reads it.
RunArtifact == [compressed_size |-> 1, sha256sum |-> file_sha256(<<1>>)]

\* The file of a package before a run: none, the artifact, or another file of its size.
RunFiles == {None, Some(<<1>>), Some(<<0>>)}

\* The file of the package `name` before the call of download_package: the one in the
\* package directory where it is kept, else any.
FilesAt(name) == IF name \in DOMAIN pkg_dir THEN {pkg_dir[name]} ELSE RunFiles

\* A download_packages that reports every package as downloaded.
DownloadPackages_PushAll ==
    /\ pc = "download"
    /\ \/ /\ dl_todo = {}
          /\ pc' = "add_to_db"
          /\ UNCHANGED <<requests, dl_todo, downloaded, run_result>>
       \/ /\ dl_todo # {}
          /\ Min(dl_todo) \notin DOMAIN packages
          /\ Exit(Err("panic"))
          /\ UNCHANGED <<requests, dl_todo, downloaded>>
       \/ /\ dl_todo # {}
          /\ Min(dl_todo) \in DOMAIN packages
          /\ \E file \in RunFiles : \E env \in DownloadEnvironments(file, RunArtifact) :
               LET out == download_package(file, RunArtifact, env)
               IN /\ requests' = IF out.requested
                                 THEN Append(requests, [kind |-> "pkg", id |-> Min(dl_todo)])
                                 ELSE requests
                  /\ IF ~out.result.ok
                     THEN /\ Exit(Err("download_package"))
                          /\ UNCHANGED <<dl_todo, downloaded>>
                     ELSE /\ downloaded' = Append(downloaded, Min(dl_todo))
                          /\ dl_todo' = dl_todo \ {Min(dl_todo)}
                          /\ UNCHANGED <<pc, run_result>>
    /\ UNCHANGED <<repo_packages, packages, providers, targets, ti, queue, selected_packages,
                   provided_targets, resolve_calls, result>>
    /\ UNCHANGED <<options, databases, repositories, sync_i, run_selected, db_added,
                   db_passed, runs>>
    /\ UNCHANGED <<syncVars, parseVars, downloadVars>>

\* One iteration of download_packages' loop, or its end.
DownloadPackages ==
    /\ pc = "download"
    /\ \/ /\ dl_todo = {}
          /\ pc' = "add_to_db"
          /\ UNCHANGED <<requests, dl_todo, downloaded, run_result, pkg_dir>>
       \/ /\ dl_todo # {}
          /\ Min(dl_todo) \notin DOMAIN packages
          /\ Exit(Err("panic"))
          /\ UNCHANGED <<requests, dl_todo, downloaded, pkg_dir>>
       \/ /\ dl_todo # {}
          /\ Min(dl_todo) \in DOMAIN packages
          /\ \E file \in FilesAt(Min(dl_todo)) :
               \E env \in DownloadEnvironments(file, RunArtifact) :
                 LET out == download_package(file, RunArtifact, env)
                 IN /\ requests' = IF out.requested
                                   THEN Append(requests, [kind |-> "pkg", id |-> Min(dl_todo)])
                                   ELSE requests
                    /\ pkg_dir' = IF Min(dl_todo) \in DOMAIN pkg_dir
                                  THEN [pkg_dir EXCEPT ![Min(dl_todo)] = out.file]
                                  ELSE pkg_dir
                    /\ IF ~out.result.ok
                       THEN /\ Exit(Err("download_package"))
                            /\ UNCHANGED <<dl_todo, downloaded>>
                       ELSE /\ downloaded' = IF out.result.value
                                            THEN Append(downloaded, Min(dl_todo))
                                            ELSE downloaded
                            /\ dl_todo' = dl_todo \ {Min(dl_todo)}
                            /\ UNCHANGED <<pc, run_result>>
    /\ UNCHANGED <<repo_packages, packages, providers, targets, ti, queue, selected_packages,
                   provided_targets, resolve_calls, result>>
    /\ UNCHANGED <<options, databases, repositories, sync_i, run_selected, db_added,
                   db_passed, runs>>
    /\ UNCHANGED <<syncVars, parseVars, artifacts, last_download>>

\* The names of a BTreeSet in iteration order.
RECURSIVE in_order(_)
in_order(set) == IF set = {} THEN <<>> ELSE <<Min(set)>> \o in_order(set \ {Min(set)})

\* What the environment may do to add_to_database: nothing, make_dirs fails, or repo-add
\* fails (or cannot be started or waited for) for the package at position `at`.
AddEnvironments(pkgs) ==
    {[fail |-> "none", at |-> 0], [fail |-> "make_dirs", at |-> 0]}
    \cup {[fail |-> "repo-add", at |-> k] : k \in 1..Len(pkgs)}

add_to_database(pkgs, env) ==
    IF pkgs = <<>> THEN Ok("done")
    ELSE IF env.fail = "none" THEN Ok("done") ELSE Err(env.fail)

\* The packages for which add_to_database started repo-add: all of them, none when
\* make_dirs fails, or those up to the one for which repo-add fails.
passed_to_repo_add(pkgs, env) ==
    IF pkgs = <<>> \/ env.fail = "make_dirs" THEN {}
    ELSE IF env.fail = "repo-add" THEN {pkgs[i] : i \in 1..env.at}
    ELSE {pkgs[i] : i \in 1..Len(pkgs)}

\* do_main's database update, and its end.
AddToDatabase ==
    /\ pc = "add_to_db"
    /\ \/ /\ ~options.add_to_db
          /\ Exit(Ok("done"))
          /\ UNCHANGED <<db_added, db_passed>>
       \/ /\ options.add_to_db /\ options.recreate_db
          /\ Exit(Err("remove_file"))
          /\ UNCHANGED <<db_added, db_passed>>
       \/ /\ options.add_to_db
          /\ LET pkgs == IF options.recreate_db THEN in_order(run_selected) ELSE downloaded
             IN /\ db_added' = Some(pkgs)
                /\ \E env \in AddEnvironments(pkgs) :
                      /\ db_passed' = db_passed \cup passed_to_repo_add(pkgs, env)
                      /\ Exit(add_to_database(pkgs, env))
    /\ UNCHANGED <<repo_packages, packages, providers, targets, ti, queue, selected_packages,
                   provided_targets, resolve_calls, result>>
    /\ UNCHANGED <<options, databases, repositories, sync_i, requests, run_selected, dl_todo,
                   downloaded, runs>>
    /\ UNCHANGED <<syncVars, parseVars, downloadVars>>

Options == [pkg_all : BOOLEAN, no_deps : BOOLEAN, add_to_db : BOOLEAN, recreate_db : BOOLEAN]

NoOptions == [pkg_all |-> FALSE, no_deps |-> FALSE, add_to_db |-> FALSE, recreate_db |-> FALSE]

InitRunVars ==
    /\ options = NoOptions
    /\ databases = <<>>
    /\ repositories = <<>>
    /\ sync_i = 1
    /\ requests = <<>>
    /\ run_selected = {}
    /\ dl_todo = {}
    /\ downloaded = <<>>
    /\ db_added = None
    /\ db_passed = {}
    /\ runs = 1
    /\ run_result = None

----------------------------------------------------------------------------
(* The specifications.                                                     *)
(* The inputs of resolve: every index of at most MaxDecls depends and      *)
(* provides declarations over Names, and every list of at most MaxTargets  *)
(* targets.                                                                *)

InitSyncVars ==
    /\ directory = NoDirectory
    /\ response = NoResponse
    /\ writes = [last_modified |-> TRUE, etag |-> TRUE]
    /\ extractor_invoked = FALSE
    /\ last_extracted = NoResponse
    /\ sync_result = None

InitSync ==
    /\ repo_packages = <<>>
    /\ packages = <<>>
    /\ providers = <<>>
    /\ targets = <<>>
    /\ ti = 1
    /\ queue = {}
    /\ selected_packages = {}
    /\ provided_targets = {}
    /\ resolve_calls = [n \in Names |-> 0]
    /\ result = None
    /\ pc = "sync"
    /\ InitSyncVars
    /\ InitParseVars
    /\ InitDownloadVars
    /\ InitRunVars

NextSync == DownloadDatabase

SpecSync == InitSync /\ [][NextSync]_vars

Decls(P) == {<<kind, p, n>> : kind \in {"depends", "provides"}, p \in P, n \in Names}

MkIndex(P, D) ==
    [p \in P |-> [repo |-> 1,
                  package |-> DatabasePackage(p, {n \in Names : <<"depends", p, n>> \in D},
                                                 {n \in Names : <<"provides", p, n>> \in D})]]

Indexes == UNION {{MkIndex(P, D) : D \in SubsetsUpTo(Decls(P), MaxDecls)} : P \in SUBSET Names}

TargetLists == SeqsUpTo(Names, MaxTargets)

InitResolve ==
    /\ repo_packages = <<>>
    /\ packages \in Indexes
    /\ providers = <<>>
    /\ targets \in TargetLists
    /\ ti = 1
    /\ queue = {}
    /\ selected_packages = {}
    /\ provided_targets = {}
    /\ resolve_calls = [n \in Names |-> 0]
    /\ result = None
    /\ pc = "new"
    /\ InitSyncVars
    /\ InitParseVars
    /\ InitDownloadVars
    /\ InitRunVars

\* The inputs of the index: at most MaxRepos repositories of at most MaxRepoLen records
\* each; a record provides at most MaxProvides names (the index does not read depends).
IndexRecords == {DatabasePackage(n, {}, p) : n \in Names, p \in SubsetsUpTo(Names, MaxProvides)}

RepoLists == SeqsUpTo(SeqsUpTo(IndexRecords, MaxRepoLen), MaxRepos) \ {<<>>}

InitIndex ==
    /\ repo_packages \in RepoLists
    /\ packages = <<>>
    /\ providers = <<>>
    /\ targets = <<>>
    /\ ti = 1
    /\ queue = {}
    /\ selected_packages = {}
    /\ provided_targets = {}
    /\ resolve_calls = [n \in Names |-> 0]
    /\ result = None
    /\ pc = "index"
    /\ InitSyncVars
    /\ InitParseVars
    /\ InitDownloadVars
    /\ InitRunVars

NextIndex == BuildIndex \/ DependencyResolver_new

SpecIndex == InitIndex /\ [][NextIndex]_vars

NextResolve == DependencyResolver_new \/ ResolveTarget \/ ResolveQueue

SpecResolve == InitResolve /\ [][NextResolve]_vars

\* resolve is a synchronous in-memory loop on one thread: while a step is enabled it is taken.
SpecResolveFair == SpecResolve /\ WF_vars(NextResolve)

\* The resolver has not run.
InitNoResolver ==
    /\ repo_packages = <<>>
    /\ packages = <<>>
    /\ providers = <<>>
    /\ ti = 1
    /\ queue = {}
    /\ selected_packages = {}
    /\ provided_targets = {}
    /\ resolve_calls = [n \in Names |-> 0]
    /\ result = None

\* The inputs of the parsers: every string of at most MaxInput characters.
InitParse ==
    /\ InitNoResolver
    /\ targets = <<>>
    /\ pc = "parse"
    /\ InitSyncVars
    /\ input \in Strings
    /\ output = NoOutput
    /\ InitDownloadVars
    /\ InitRunVars

NextParse == ParseDepends \/ ParsePkgnamePkgver

SpecParse == InitParse /\ [][NextParse]_vars

\* The inputs of download_package: one package with any record, and any file or none at
\* its destination; the downloader is run for it again and again.
InitDownload ==
    /\ InitNoResolver
    /\ targets = <<>>
    /\ pc = "download_package"
    /\ InitSyncVars
    /\ InitParseVars
    /\ artifacts \in [{1} -> Artifacts]
    /\ pkg_dir \in [{1} -> {None} \cup {Some(d) : d \in Datas}]
    /\ last_download = NoDownload
    /\ InitRunVars

NextDownload == DownloadPackage

SpecDownload == InitDownload /\ [][NextDownload]_vars

\* The inputs of a run: every combination of options and every list of targets with one
\* or two repositories, and every list of at most MaxRepos URLs with one target.
RunDatabases == {<<Url(<<"/", "x">>)>>, <<Url(<<"/", "x">>), Url(<<"/", "y">>)>>}

InitRun ==
    /\ InitNoResolver
    /\ pc = "main"
    /\ InitSyncVars
    /\ InitParseVars
    /\ InitDownloadVars
    /\ \/ /\ options \in Options
          /\ targets \in TargetLists
          /\ databases \in RunDatabases
       \/ /\ options = NoOptions
          /\ targets = <<1>>
          /\ databases \in SeqsUpTo(Urls, MaxRepos)
    /\ repositories = <<>>
    /\ sync_i = 1
    /\ requests = <<>>
    /\ run_selected = {}
    /\ dl_todo = {}
    /\ downloaded = <<>>
    /\ db_added = None
    /\ db_passed = {}
    /\ runs = 1
    /\ run_result = None

NextRun ==
    \/ Main
    \/ SyncDbs
    \/ BuildIndex
    \/ SelectWithoutResolver
    \/ Resolve
    \/ ResolveTarget
    \/ ResolveQueue
    \/ Resolved
    \/ DownloadPackages
    \/ AddToDatabase

SpecRun == InitRun /\ [][NextRun]_vars

\* The downloader is started again with the same configuration: with the same databases
\* do_main selects the same packages and calls download_packages for them again, over the
\* package directory that the earlier runs left.
RunAgain ==
    /\ pc = "exit"
    /\ runs < MaxRuns
    /\ runs' = runs + 1
    /\ pc' = "download"
    /\ dl_todo' = run_selected
    /\ downloaded' = <<>>
    /\ requests' = <<>>
    /\ db_added' = None
    /\ run_result' = None
    /\ UNCHANGED <<repo_packages, packages, providers, targets, ti, queue, selected_packages,
                   provided_targets, resolve_calls, result>>
    /\ UNCHANGED <<options, databases, repositories, sync_i, run_selected, db_passed>>
    /\ UNCHANGED <<syncVars, parseVars, downloadVars>>

\* The inputs of a sequence of runs with --add-to-db: one repository with the package 1,
\* which depends on 2, and the package 2; the target 1 or 2, for which resolve selects
\* {1, 2} or {2}; and a package directory that holds no file or another file of the
\* recorded size for each package, so that every artifact in it is written by a run.
InitRuns ==
    /\ repo_packages = <<<<DatabasePackage(1, {2}, {}), DatabasePackage(2, {}, {3})>>>>
    /\ packages = index_packages_by_name(repo_packages)
    /\ providers = index_providers(packages)
    /\ targets \in {<<1>>, <<2>>}
    /\ ti = 2
    /\ queue = {}
    /\ selected_packages = IF targets = <<1>> THEN {1, 2} ELSE {2}
    /\ provided_targets = selected_packages \cup {3}
    /\ resolve_calls = [n \in Names |-> IF n = 2 /\ targets = <<1>> THEN 1 ELSE 0]
    /\ result = Ok(selected_packages)
    /\ pc = "download"
    /\ InitSyncVars
    /\ InitParseVars
    /\ artifacts = <<>>
    /\ pkg_dir \in [DOMAIN packages -> {None, Some(<<0>>)}]
    /\ last_download = NoDownload
    /\ options \in {[NoOptions EXCEPT !.add_to_db = TRUE, !.recreate_db = r] : r \in BOOLEAN}
    /\ databases = <<Url(<<"/", "x">>)>>
    /\ repositories = parse_urls(databases).value
    /\ sync_i = 2
    /\ requests = <<>>
    /\ run_selected = selected_packages
    /\ dl_todo = run_selected
    /\ downloaded = <<>>
    /\ db_added = None
    /\ db_passed = {}
    /\ runs = 1
    /\ run_result = None

NextRuns == DownloadPackages \/ AddToDatabase \/ RunAgain

SpecRuns == InitRuns /\ [][NextRuns]_vars

----------------------------------------------------------------------------
(* Vocabulary of the resolver's claims, defined from the index alone.      *)

IsReal(n) == n \in DOMAIN packages

DependsOf(p) == packages[p].package.depends

ProvidesOf(p) == packages[p].package.provides

\* The real packages that supply capability n: the one named n and those declaring it.
ProvidersOf(n) == {p \in DOMAIN packages : p = n \/ n \in ProvidesOf(p)}

\* The capabilities a set S of real packages covers.
Covered(S) == S \cup UNION {ProvidesOf(p) : p \in S}

TargetNames == {targets[i] : i \in 1..Len(targets)}

Finished == pc \in {"done", "failed"}

\* The package a capability name stands for: the real package of that name, else its first provider.
Stands(n) == IF IsReal(n) THEN {n} ELSE IF ProvidersOf(n) # {} THEN {Min(ProvidersOf(n))} ELSE {}

\* Every package reached from the packages of S by following depends names to the package they stand for.
RECURSIVE Closure(_)
Closure(S) ==
    LET step == S \cup UNION {Stands(d) : d \in UNION {DependsOf(p) : p \in S}}
    IN IF step = S THEN S ELSE Closure(step)

\* S holds every explicit real target, covers every virtual target and every dependency of its members.
Satisfies(S) ==
    /\ \A t \in TargetNames : IF IsReal(t) THEN t \in S ELSE t \in Covered(S)
    /\ \A p \in S : DependsOf(p) \subseteq Covered(S)

----------------------------------------------------------------------------
(* Vocabulary of the index's claims, defined from the lists of records.    *)

\* The positions <<i, j>> of the records named n, and all names with a record.
RecordsNamed(n) ==
    {ij \in (1..Len(repo_packages)) \X (1..MaxRepoLen) :
        ij[2] <= Len(repo_packages[ij[1]]) /\ repo_packages[ij[1]][ij[2]].name = n}

RecordNames == {n \in Names : RecordsNamed(n) # {}}

\* The first record named n of the earliest-listed repository that has one.
EarliestRecord(n) ==
    LET i == Min({ij[1] : ij \in RecordsNamed(n)})
        j == Min({ij[2] : ij \in {x \in RecordsNamed(n) : x[1] = i}})
    IN [repo |-> i, package |-> repo_packages[i][j]]

IndexBuilt == pc # "index"

ProvidersBuilt == pc \notin {"index", "new"}

\* C1: index_packages_by_name binds each name that has a record, once, to the record and
\* repository of the earliest-listed repository with a record of that name; the records
\* of that name in later repositories are dropped, and nothing fails.
C1_FirstRepositoryWins ==
    IndexBuilt =>
        /\ DOMAIN packages = RecordNames
        /\ \A n \in RecordNames : packages[n] = EarliestRecord(n)

C1_Witness ==
    /\ IndexBuilt
    /\ \E n \in RecordNames : \E x, y \in RecordsNamed(n) :
          /\ x[1] < y[1]
          /\ repo_packages[x[1]][x[2]] # repo_packages[y[1]][y[2]]
          /\ packages[n].repo = 1

\* C2 as stated: providers[X] is the set of the names p of the records, of all records
\* of all repositories, that are named X or declare X in provides.
C2_Original ==
    ProvidersBuilt =>
        LET from(X) == {p \in Names : \E ij \in RecordsNamed(p) :
                            p = X \/ X \in repo_packages[ij[1]][ij[2]].provides}
        IN /\ DOMAIN providers = {X \in Names : from(X) # {}}
           /\ \A X \in DOMAIN providers : providers[X] = from(X)

\* C2 as amended: providers[X] is the set of the names p of the records kept in the
\* index by name that are named X or declare X in provides; a record dropped for a
\* record of the same name in an earlier repository contributes nothing.
C2_ProvidersOfIndexedRecords ==
    ProvidersBuilt =>
        LET from(X) == {p \in DOMAIN packages :
                            p = X \/ X \in packages[p].package.provides}
        IN /\ DOMAIN providers = {X \in Names : from(X) # {}}
           /\ \A X \in DOMAIN providers : providers[X] = from(X)

C2_Witness ==
    /\ ProvidersBuilt
    /\ \E X \in DOMAIN providers : Cardinality(providers[X]) = 2 /\ X \notin DOMAIN packages
    /\ \E n \in RecordNames : \E ij \in RecordsNamed(n) :
          ~(repo_packages[ij[1]][ij[2]].provides \subseteq packages[n].package.provides)

----------------------------------------------------------------------------
\* C3: whenever resolve succeeds, every target that names a real package of the index
\* is in the returned selection, also when another selected package provides that name.
C3_ExplicitTargetsSelected ==
    pc = "done" => \A t \in TargetNames : IsReal(t) => t \in result.value

C3_Witness ==
    /\ pc = "done"
    /\ \E t \in TargetNames : \E p \in result.value :
          IsReal(t) /\ p # t /\ t \in ProvidesOf(p) /\ targets[1] = p

\* C4: resolve fails, returning an error and no selection, exactly when a target or a
\* dependency of a package it selected is neither a real package nor a capability with a
\* provider, and is not covered by a selected package; it fails in no other case.
C4_FailsIffUnresolvable ==
    Finished =>
        /\ pc = "failed" <=> ~result.ok
        /\ ~result.ok <=>
              \E n \in TargetNames \cup UNION {DependsOf(p) : p \in selected_packages} :
                  ~IsReal(n) /\ ProvidersOf(n) = {} /\ n \notin provided_targets

C4_Witness ==
    /\ pc = "failed"
    /\ result.value \notin TargetNames
    /\ selected_packages # {}

\* The case of C5: one virtual target with exactly one provider, and resolve succeeded.
C5_Case(P) ==
    /\ pc = "done"
    /\ Len(targets) = 1
    /\ ~IsReal(targets[1])
    /\ ProvidersOf(targets[1]) = {P}

\* C5 as stated: for one virtual target with exactly one provider P, resolve returns
\* exactly P and the transitive closure of P's dependencies.
C5_Original ==
    \A P \in Names : C5_Case(P) => result.value = Closure({P})

\* No package of the closure provides a dependency name that stands for another package.
C5_NoShortcut(S) ==
    \A p \in S : \A d \in DependsOf(p) : \A q \in S : d \in ProvidesOf(q) => Stands(d) = {q}

\* C5 as amended: resolve returns P and only packages of the transitive closure of P's
\* dependencies, every dependency of a returned package is covered by a returned package,
\* and the result is the whole closure when no package of the closure provides a
\* dependency name that stands for another package.
C5_ProviderAndCoveredClosure ==
    \A P \in Names : C5_Case(P) =>
        /\ P \in result.value
        /\ result.value \subseteq Closure({P})
        /\ \A p \in result.value : DependsOf(p) \subseteq Covered(result.value)
        /\ C5_NoShortcut(Closure({P})) => result.value = Closure({P})

C5_Witness ==
    \E P \in Names :
        /\ C5_Case(P)
        /\ C5_NoShortcut(Closure({P}))
        /\ Cardinality(result.value) >= 2
        /\ \E p \in result.value : \E d \in DependsOf(p) : ~IsReal(d)

\* C6 as stated: the returned selection is minimal: no package can be removed from it
\* such that the rest still holds every explicit real target, covers every virtual
\* target and covers every dependency of its members.
C6_Original ==
    pc = "done" => \A p \in result.value : ~Satisfies(result.value \ {p})

\* C6 as amended: the returned selection satisfies the targets and its own dependencies,
\* and each of its members is an explicit real target or the package that a virtual
\* target or a dependency of a member stands for; it need not be minimal.
C6_SatisfiesAndJustified ==
    pc = "done" =>
        /\ Satisfies(result.value)
        /\ \A p \in result.value :
              \/ p \in TargetNames
              \/ \E n \in TargetNames \cup UNION {DependsOf(q) : q \in result.value} :
                    Stands(n) = {p}

C6_Witness ==
    /\ pc = "done"
    /\ \E p \in result.value : p \notin TargetNames /\ Satisfies(result.value \ {p})

\* C7: during one resolve call resolve_target is invoked at most once for each name,
\* since a resolved name is in provided_targets from then on; a package that several
\* selected packages depend on is in the result once.
C7_ResolvedAtMostOnce ==
    \A n \in Names :
        /\ resolve_calls[n] <= 1
        /\ (resolve_calls[n] = 1 /\ pc # "failed") => n \in provided_targets

C7_Witness ==
    /\ pc = "done"
    /\ \E p, q, s \in result.value :
          /\ p # q /\ p # s /\ q # s
          /\ s \in DependsOf(p) /\ s \in DependsOf(q)
          /\ resolve_calls[s] = 1

\* C8 as stated, its reason: provided_targets only grows and the queue only admits
\* names that are not in provided_targets.
C8_Original ==
    [][/\ provided_targets \subseteq provided_targets'
       /\ (queue' \ queue) \cap provided_targets' = {}]_vars

\* C8 as amended: resolve terminates, with cyclic depends too: provided_targets only
\* grows, every iteration of the while loop removes the popped name from the queue and
\* either discards it, fails, or adds it to provided_targets, and the while loop admits
\* only names not in provided_targets (the pass over the targets admits such names too).
C8_Terminates ==
    /\ <>Finished
    /\ [][/\ provided_targets \subseteq provided_targets'
          /\ pc = "queue" /\ queue # {} =>
                /\ pop_first(queue).value \notin queue' \/ pc' = "failed"
                /\ \/ queue' \subseteq queue /\ provided_targets' = provided_targets
                   \/ pop_first(queue).value \in provided_targets' \ provided_targets
                /\ (queue' \ queue) \cap provided_targets' = {}]_vars

C8_Witness ==
    /\ pc = "done"
    /\ \E p, q \in result.value : p # q /\ q \in DependsOf(p) /\ p \in DependsOf(q)
    /\ \E p \in result.value : p \in DependsOf(p)

----------------------------------------------------------------------------
\* C9: when the server answers the conditional fetch with 304, download_database
\* succeeds, bsdtar is not started, and the directory of the repository, both sidecars
\* included, is left exactly as it was before the pass.
C9_NotModifiedLeavesDirectory ==
    [][(response'.kind = "http" /\ response'.status = 304) =>
          /\ sync_result'.ok
          /\ ~extractor_invoked'
          /\ directory' = directory]_vars

C9_Witness ==
    /\ response.kind = "http" /\ response.status = 304
    /\ response.etag.kind = "valid"
    /\ sync_result.ok
    /\ directory.entries # {}
    /\ directory.last_modified # None
    /\ directory.etag # None
    /\ directory.etag # Some(response.etag.value)

\* The case of C10: the last pass fetched a fresh archive and extracted it.
C10_Fresh == response.kind = "http" /\ response.status # 304 /\ sync_result.ok

----------------------------------------------------------------------------
(* Vocabulary of the claims on download_package: the last call, the file   *)
(* before it and the file after it.                                        *)

Called == last_download.name # 0

FileBefore == last_download.before

FileAfter == pkg_dir[last_download.name]

Record == artifacts[last_download.name]

Fetched == last_download.env.data

CaseFold(s) == [i \in 1..Len(s) |-> to_ascii_uppercase(s[i])]

\* The file before the call has the recorded size and, whatever the case of the letters,
\* the recorded checksum.
ValidBefore ==
    /\ FileBefore # None
    /\ Len(FileBefore.some) = Record.compressed_size
    /\ CaseFold(file_sha256(FileBefore.some)) = CaseFold(Record.sha256sum)

ReturnedFalse == last_download.result.ok /\ ~last_download.result.value

ReturnedTrue == last_download.result.ok /\ last_download.result.value

\* C11 as stated: download_package returns false and leaves the file as it is if and only
\* if the file exists with the recorded size and checksum; in every other case it fetches
\* the artifact and overwrites the file with the fetched bytes.
C11_Original ==
    Called =>
        /\ (ReturnedFalse /\ FileAfter = FileBefore) <=> ValidBefore
        /\ ~ValidBefore => last_download.requested /\ FileAfter = Some(Fetched)

\* C11 as amended: download_package returns false, without a fetch and leaving the file
\* as it is, only for a file with the recorded size and checksum, and always for such a
\* file unless make_dirs, stat or the read of the file fails; for any other file, and so
\* for one whose size matches and whose checksum does not, it fetches the artifact and
\* overwrites the file with the fetched bytes unless an operation fails; when an operation
\* fails it returns an error, and the file is as before or, once it was opened for
\* writing, empty or a part of the fetched bytes.
C11_SkipsOnlyValidFile ==
    Called =>
        /\ ReturnedFalse => ValidBefore /\ FileAfter = FileBefore /\ ~last_download.requested
        /\ ReturnedTrue => ~ValidBefore /\ last_download.requested /\ FileAfter = Some(Fetched)
        /\ (ValidBefore /\ last_download.env.fail \notin {"make_dirs", "stat", "read"}) =>
              ReturnedFalse
        /\ (~ValidBefore /\ last_download.env.fail = "none") => ReturnedTrue
        /\ ~last_download.result.ok =>
              /\ last_download.env.fail # "none"
              /\ \/ FileAfter = FileBefore /\ ~last_download.requested
                 \/ /\ ~ValidBefore
                    /\ last_download.requested
                    /\ FileAfter # None
                    /\ Len(FileAfter.some) < Len(Fetched) \/ FileAfter.some = <<>>
                    /\ FileAfter.some = SubSeq(Fetched, 1, Len(FileAfter.some))

C11_Witness ==
    /\ Called
    /\ FileBefore # None
    /\ Len(FileBefore.some) = Record.compressed_size
    /\ Record.compressed_size = 2
    /\ ~ValidBefore
    /\ ReturnedTrue
    /\ FileAfter = Some(Fetched)
    /\ Fetched # FileBefore.some
    /\ Len(Fetched) = 2

----------------------------------------------------------------------------
(* Vocabulary of the claims on a run, defined from the history of the      *)
(* requests and from the result of the run.                                *)

IsDbRequest(r) == r.kind = "db"

IsPkgRequest(r) == r.kind = "pkg"

\* The repositories whose database was requested, and the packages whose artifact was
\* requested, each in the order of the requests.
Ids(rs) == [i \in 1..Len(rs) |-> rs[i].id]

SyncedRepositories == Ids(SelectSeq(requests, IsDbRequest))

FetchedPackages == Ids(SelectSeq(requests, IsPkgRequest))

Range(s) == {s[i] : i \in 1..Len(s)}

Increasing(s) == \A i, j \in 1..Len(s) : i < j => s[i] < s[j]

FailedWith(kind) == run_result # None /\ ~run_result.ok /\ run_result.value = kind

\* C12: download_package returns true exactly for the packages it fetched and wrote, so
\* downloaded lists, in order, the packages fetched in this run; add_to_database is
\* called only with --add-to-db, with the selected packages under --recreate-db and with
\* the packages fetched in this run otherwise.
C12_UpdaterReceivesDownloaded ==
    /\ ~FailedWith("download_package") => downloaded = FetchedPackages
    /\ db_added # None =>
          /\ options.add_to_db
          /\ pc = "exit"
          /\ IF options.recreate_db
             THEN Range(db_added.some) = run_selected /\ Increasing(db_added.some)
             ELSE db_added.some = FetchedPackages

C12_Witness ==
    /\ db_added # None
    /\ ~options.recreate_db
    /\ Cardinality(run_selected) = 2
    /\ Len(db_added.some) = 1
    /\ run_result.ok

\* The first n repositories, in configured order.
FirstRepositories(n) == [i \in 1..n |-> i]

\* The last download_database of the run failed.
SyncFailed == sync_result # None /\ ~sync_result.ok

\* C13 as stated: when the synchronization of a repository fails, the repositories
\* listed after it are still synchronized.
C13_Original ==
    (pc = "exit" /\ SyncFailed) => Range(SyncedRepositories) = 1..Len(repositories)

\* C13 as amended: a failure of download_database for a repository (the fetch fails, the
\* status is an error, or the extraction fails) ends sync_dbs and the run with an error:
\* the repositories before it were synchronized in configured order, it is the last one
\* requested, and the repositories listed after it are not synchronized.
C13_SyncFailureEndsSynchronization ==
    SyncFailed =>
        /\ pc = "exit"
        /\ FailedWith("download_database")
        /\ SyncedRepositories = FirstRepositories(sync_i)
        /\ Len(repo_packages) = sync_i - 1
        /\ packages = <<>>

C13_Witness ==
    /\ SyncFailed
    /\ sync_result.value = "bsdtar"
    /\ Len(repositories) = 2
    /\ SyncedRepositories = <<1>>

\* C14: a failure of the synchronization of a repository or of the download of a package
\* ends the run with an error at that step: no later repository is synchronized, no later
\* package is fetched, add_to_database is not called, no request is made twice, and the
\* failed item is not passed over; once the run has ended nothing more happens.
C14_NoPartialSuccess ==
    /\ [](/\ run_result # None => pc = "exit"
          /\ (FailedWith("download_database") \/ FailedWith("read_db_dir")) =>
                /\ SyncedRepositories = FirstRepositories(sync_i)
                /\ Len(repo_packages) = sync_i - 1
                /\ FetchedPackages = <<>>
                /\ db_added = None
          /\ FailedWith("download_package") =>
                /\ SyncedRepositories = FirstRepositories(Len(repositories))
                /\ Increasing(FetchedPackages)
                /\ dl_todo # {}
                /\ \A n \in Range(FetchedPackages) : n <= Min(dl_todo)
                /\ \A n \in Range(downloaded) : n < Min(dl_todo)
                /\ db_added = None)
    /\ [][pc # "exit"]_vars

C14_Witness ==
    /\ FailedWith("download_package")
    /\ options.add_to_db
    /\ Cardinality(dl_todo) = 2
    /\ FetchedPackages = <<Min(dl_todo)>>

\* Every repository was synchronized and read, each once and in configured order.
Synchronized ==
    /\ repositories # <<>>
    /\ Len(repo_packages) = Len(repositories)
    /\ SyncedRepositories = FirstRepositories(Len(repositories))

\* The index holds the records of all the repositories.
IndexComplete == Synchronized /\ DOMAIN packages = RecordNames

\* The requests of a run are those for the repositories, in configured order, and then
\* those for the packages, in the order of the selection.
RequestsInOrder ==
    /\ SyncedRepositories = FirstRepositories(Len(SyncedRepositories))
    /\ Increasing(FetchedPackages)
    /\ \A i, j \in 1..Len(requests) :
          (i < j /\ requests[i].kind = "pkg") => requests[j].kind = "pkg"

\* C15 as stated: in every run a package is fetched only after resolution has succeeded.
C15_Original ==
    FetchedPackages # <<>> => result # None /\ result.ok

\* C15 as amended: repositories are synchronized one at a time in configured order; the
\* index is built only after every repository was synchronized and read; resolve runs on
\* the complete index only; a package is fetched only when the selection is known, which
\* is the result of a successful resolve or, with --pkg-all or --no-deps, where resolve
\* does not run, taken from the complete index or from the targets; packages are fetched
\* one at a time in order, and add_to_database is called only after the download of every
\* selected package has succeeded.
C15_StepsInOrder ==
    /\ RequestsInOrder
    /\ pc \in {"index", "new", "targets", "queue", "done", "failed", "download", "add_to_db"} =>
          Synchronized
    /\ pc \in {"new", "targets", "queue", "done", "failed", "download", "add_to_db"} =>
          IndexComplete
    /\ result # None => IndexComplete /\ ~options.pkg_all /\ ~options.no_deps
    /\ FetchedPackages # <<>> =>
          /\ IndexComplete
          /\ Range(FetchedPackages) \subseteq run_selected
          /\ IF options.pkg_all THEN run_selected = DOMAIN packages
             ELSE IF options.no_deps THEN run_selected = TargetNames
             ELSE result # None /\ result.ok /\ run_selected = result.value
    /\ db_added # None =>
          /\ dl_todo = {}
          /\ ~FailedWith("download_package")
          /\ Range(downloaded) \subseteq run_selected
          /\ run_selected \subseteq DOMAIN packages

C15_Witness ==
    /\ db_added # None
    /\ ~options.pkg_all /\ ~options.no_deps
    /\ Len(repositories) = 2
    /\ Len(FetchedPackages) = 2
    /\ \E n \in DOMAIN packages : packages[n].repo = 2

\* The part of a path after its last "/", the whole path when it has none.
LastSegment(path) ==
    LET slashes == {i \in 1..Len(path) : path[i] = "/"}
        last == IF slashes = {} THEN 0 ELSE CHOOSE i \in slashes : \A j \in slashes : j <= i
    IN SubSeq(path, last + 1, Len(path))

\* do_main has called parse_urls.
ParseUrlsCalled ==
    /\ pc # "main"
    /\ ~FailedWith("read_files") /\ ~FailedWith("no targets") /\ ~FailedWith("no databases")

\* Two configured URLs derive the same repository name, or one derives the empty name.
BadNames ==
    \/ \E i \in 1..Len(databases) :
          databases[i].wellformed /\ LastSegment(databases[i].path) = <<>>
    \/ \E i, j \in 1..Len(databases) :
          /\ i < j
          /\ databases[i].wellformed /\ databases[j].wellformed
          /\ LastSegment(databases[i].path) = LastSegment(databases[j].path)

\* parse_urls returned one repository for each URL, in input order, with the name derived
\* from the URL, and the names are distinct and not empty.
OneRepositoryPerUrl ==
    /\ Len(repositories) = Len(databases)
    /\ \A i \in 1..Len(databases) :
          /\ repositories[i].db_url = databases[i]
          /\ repositories[i].name = LastSegment(databases[i].path)
          /\ repositories[i].name # <<>>
    /\ \A i, j \in 1..Len(repositories) : i # j => repositories[i].name # repositories[j].name

\* C16 as stated: parse_urls returns an error if two URLs derive the same name or a
\* derived name is empty, and otherwise one repository for each URL.
C16_Original ==
    ParseUrlsCalled =>
        IF BadNames THEN FailedWith("parse_urls") /\ requests = <<>>
        ELSE OneRepositoryPerUrl

\* C16 as amended: parse_urls returns an error if a configured string is not a URL, two
\* URLs derive the same name or a derived name is empty, and the run then ends before any
\* request is issued; otherwise it returns one repository for each URL, in input order,
\* with distinct names that are not empty.
C16_ParseUrlsRejectsBadConfiguration ==
    ParseUrlsCalled =>
        IF BadNames \/ \E i \in 1..Len(databases) : ~databases[i].wellformed
        THEN FailedWith("parse_urls") /\ pc = "exit" /\ requests = <<>> /\ repositories = <<>>
        ELSE OneRepositoryPerUrl /\ ~FailedWith("parse_urls")

C16_Witness ==
    /\ FailedWith("parse_urls")
    /\ Len(databases) = 2
    /\ databases[1].wellformed /\ databases[2].wellformed
    /\ databases[1] # databases[2]
    /\ LastSegment(databases[1].path) = LastSegment(databases[2].path)
    /\ LastSegment(databases[1].path) # <<>>

----------------------------------------------------------------------------
(* Vocabulary of the claims on the parsers, defined from the positions of  *)
(* the characters in the input.                                            *)

Positions(cs) == {i \in 1..Len(input) : input[i] \in cs}

Between(i, j) == SubSeq(input, i + 1, j - 1)

\* The operator that starts at position i of the input: its name and its length.
OperatorAt(i) ==
    LET long == i < Len(input) /\ input[i + 1] = "="
    IN [constraint |-> CASE input[i] = ">" -> IF long THEN "GreaterEqual" ELSE "Greater"
                         [] input[i] = "<" -> IF long THEN "LessEqual" ELSE "Less"
                         [] OTHER -> "Equal",
        length |-> IF long THEN 2 ELSE 1]

\* C17: parse_depends never panics; without any of '<', '>', '=' it returns the whole
\* string as the name and no constraint; otherwise the name is what precedes the first of
\* these characters, the operator is the longest of ">=", "<=", ">", "<", "==", "=" that
\* starts there ("==" and "=" both mean Equal), and the version is the rest of the string.
C17_ParseDependsSplitsAtOperator ==
    output.fn = "parse_depends" =>
        /\ ~output.value.panic
        /\ IF Positions({"<", ">", "="}) = {}
           THEN output.value.name = input /\ output.value.constraint = None
           ELSE LET i == Min(Positions({"<", ">", "="}))
                IN /\ output.value.name = Between(0, i)
                   /\ output.value.constraint # None
                   /\ output.value.constraint.some.constraint = OperatorAt(i).constraint
                   /\ output.value.constraint.some.version =
                         Between(i + OperatorAt(i).length - 1, Len(input) + 1)

C17_Witness ==
    /\ output.fn = "parse_depends"
    /\ input = <<"a", ">", "=", "1", "-">>
    /\ output.value.name = <<"a">>
    /\ output.value.constraint = Some([constraint |-> "GreaterEqual", version |-> <<"1", "-">>])

\* C18: for an input made of a name, a '-', a package version with an optional epoch and
\* ':' before it, a '-' and a release, none of them empty, parse_pkgname_pkgver returns
\* Ok with the name and the version (the epoch, 0 without one; pkgver; pkgrel), and an
\* error only when the epoch is not an integer.
C18_ParsesNameVersionRelease ==
    (/\ output.fn = "parse_pkgname_pkgver"
     /\ Cardinality(Positions({"-"})) = 2
     /\ input[1] # "-" /\ input[Len(input)] # "-"
     /\ \A i \in Positions({"-"}) : i + 1 \notin Positions({"-"})) =>
        LET i == Min(Positions({"-"}))
            j == Min(Positions({"-"}) \ {i})
            colons == {k \in Positions({":"}) : i < k /\ k < j}
            pkgrel == Some(Between(j, Len(input) + 1))
        IN IF colons = {}
           THEN /\ output.value.ok
                /\ output.value.name = Between(0, i)
                /\ output.value.version = Version(0, Between(i, j), pkgrel)
           ELSE IF parse_i32(Between(i, Min(colons))) = None
           THEN ~output.value.ok
           ELSE /\ output.value.ok
                /\ output.value.name = Between(0, i)
                /\ output.value.version =
                      Version(parse_i32(Between(i, Min(colons))).some, Between(Min(colons), j),
                              pkgrel)

----------------------------------------------------------------------------
(* The choice of resolve_target, and the bookkeeping of resolve.           *)

\* The while loop is about to call resolve_target for the name it pops.
Resolving == pc = "queue" /\ queue # {} /\ Min(queue) \notin provided_targets

\* C19: the package resolve_target chooses for a name is a function of the index and
\* the name only: each call in the while loop adds to the selection the real package of
\* that name, else the smallest package providing it, whatever the target order, the
\* selection and the satisfied set are at the call; with no such package the call fails.
C19_ChoiceFromIndexAndName ==
    [][Resolving =>
          LET n == Min(queue) IN
            IF Stands(n) = {}
            THEN pc' = "failed" /\ selected_packages' = selected_packages
            ELSE /\ pc' = "queue"
                 /\ selected_packages' = selected_packages \cup Stands(n)
                 /\ provided_targets' = provided_targets \cup Covered(Stands(n))]_vars

\* A virtual name with two providers was resolved, and of its providers the smaller
\* one alone is in the result.
C19_Witness ==
    /\ pc = "done"
    /\ \E n \in Names :
          /\ ~IsReal(n)
          /\ resolve_calls[n] = 1
          /\ Cardinality(ProvidersOf(n)) >= 2
          /\ result.value \cap ProvidersOf(n) = {Min(ProvidersOf(n))}

\* C20: throughout resolve the selection holds packages of the index only and the
\* satisfied set is exactly what the selected packages cover, their own names and their
\* provides; a successful result is dependency-closed: every dependency of every
\* selected package, and every target, is covered by the result.
C20_BookkeepingAndClosure ==
    /\ selected_packages \subseteq DOMAIN packages
    /\ provided_targets = Covered(selected_packages)
    /\ pc = "done" =>
          /\ result.value = selected_packages
          /\ \A p \in result.value : DependsOf(p) \subseteq Covered(result.value)
          /\ TargetNames \subseteq Covered(result.value)

\* resolve succeeded with two packages, one selected for a dependency of the other,
\* and a name that only the provides of a selected package cover.
C20_Witness ==
    /\ pc = "done"
    /\ \E p, q \in result.value :
          /\ p # q
          /\ p \in TargetNames
          /\ q \notin TargetNames
          /\ DependsOf(p) \cap Covered({q}) # {}
    /\ provided_targets # selected_packages

----------------------------------------------------------------------------
(* The outcome of resolve as a function of the set of the targets.         *)

\* The while loop of resolve run to its end from a selection, the names it covers and a
\* queue: the selection it returns, or the name no package stands for.
RECURSIVE Drain(_, _, _)
Drain(sel, prov, q) ==
    IF q = {} THEN Ok(sel)
    ELSE LET n == Min(q) IN
         IF n \in prov THEN Drain(sel, prov, q \ {n})
         ELSE IF Stands(n) = {} THEN Err(n)
         ELSE LET p == Min(Stands(n))
                  covered == prov \cup Covered({p})
              IN Drain(sel \cup {p}, covered, (q \ {n}) \cup (DependsOf(p) \ covered))

\* The outcome for a set T of target names: the real packages of T are selected, their
\* dependencies and the other names of T are queued, and the queue is drained.
OutcomeOf(T) ==
    LET real == {t \in T : IsReal(t)}
    IN Drain(real, Covered(real), UNION {DependsOf(p) : p \in real} \cup (T \ real))

\* C21: the outcome of resolve, the selection returned or the failure, is the outcome
\* defined by the set of the target names: the order of the targets and the repetition of
\* a target do not change it.
C21_OutcomeOfTargetSet ==
    Finished => result = OutcomeOf(TargetNames)

\* resolve succeeded for two targets given against the order of their names, one a real
\* package and one a virtual name, and returned at least two packages.
C21_Witness ==
    /\ pc = "done"
    /\ Len(targets) = 2
    /\ targets[1] > targets[2]
    /\ IsReal(targets[1]) # IsReal(targets[2])
    /\ Cardinality(result.value) >= 2

----------------------------------------------------------------------------
(* The selection handed to download_packages.                              *)

\* A requested name that is no package and that no package provides.
UnknownTarget == \E t \in TargetNames : Stands(t) = {}

\* C22: in every mode of a run every name of the selection handed to download_packages
\* is a key of the index, so download_packages never reaches its panic; a requested name
\* with no package ends the run with an error before any package is requested.
C22_SelectionInIndex ==
    /\ pc \in {"download", "add_to_db"} => run_selected \subseteq DOMAIN packages /\ ~UnknownTarget
    /\ ~FailedWith("panic")
    /\ (pc = "exit" /\ UnknownTarget) => ~run_result.ok /\ FetchedPackages = <<>>

----------------------------------------------------------------------------
(* The sidecars over a sequence of synchronisation passes.                 *)

\* Each sidecar that is present holds the validator of the response whose archive was
\* last extracted with success.
SidecarsFromLastExtraction ==
    /\ directory.last_modified # None =>
          /\ last_extracted.last_modified.kind = "valid"
          /\ directory.last_modified = Some(last_extracted.last_modified.value)
    /\ directory.etag # None =>
          /\ last_extracted.etag.kind = "valid"
          /\ directory.etag = Some(last_extracted.etag.value)

\* The last pass fetched an archive and failed to extract it.
ExtractionFailed == response.kind = "http" /\ response.status = 200 /\ ~sync_result.ok

\* The next pass sends no validator.
NextFetchUnconditional ==
    conditional_request(directory) = [if_modified_since |-> None, if_none_match |-> None]

\* C23: after any sequence of passes a sidecar that is present holds the validator of
\* the response whose archive was last extracted with success; a pass whose fetch fails
\* leaves the directory and the sidecars as they were; a pass whose extraction fails
\* leaves no sidecar, so the next pass fetches unconditionally.
C23_SidecarsMatchExtraction ==
    /\ [](SidecarsFromLastExtraction /\ (ExtractionFailed => NextFetchUnconditional))
    /\ [][~maybe_download(response').ok => directory' = directory]_vars

----------------------------------------------------------------------------
(* The database over a sequence of runs.                                   *)

\* The package directory holds the valid artifact of the package n: a file of the
\* recorded size and checksum.
ValidArtifact(n) ==
    /\ pkg_dir[n] # None
    /\ Len(pkg_dir[n].some) = RunArtifact.compressed_size
    /\ eq_ignore_ascii_case(file_sha256(pkg_dir[n].some), RunArtifact.sha256sum)

\* C24: with --add-to-db and without --recreate-db, when a run of a sequence of runs with
\* the same configuration succeeds, every selected package whose valid artifact is in the
\* package directory was handed to repo-add in some run of the sequence.
C24_ValidArtifactsWereAdded ==
    (pc = "exit" /\ run_result.ok /\ options.add_to_db /\ ~options.recreate_db) =>
        \A n \in run_selected : ValidArtifact(n) => n \in db_passed

============================================================================
